---- MODULE Spec2Model ----
(***************************************************************************)
(* A model of adedayo/ldap-sync: the filter engine (LDAPFilter.Matches),   *)
(* the membership associator (Constraint.IsMember and                      *)
(* GroupMembershipAssociator.IsMember) and the snapshot LDAPRecords        *)
(* (GetUsers, GetGroups, IsMember, GetUsersAndGroups), and the directory   *)
(* source of sync.go (Do and Auth).                                        *)
(*                                                                         *)
(* Go strings are sequences of one-character strings.  A *LDAPEntry is an  *)
(* index into Entries, 0 being the nil pointer.  A nil slice is the empty  *)
(* sequence (the code never builds a non-nil empty slice).                 *)
(***************************************************************************)
EXTENDS Naturals, Sequences, FiniteSets

VARIABLES Entries, config, users, groups, last, first

\* The call of Do or Auth under way (sync.go): pc is its position, data the
\* LDAPAuthData of Auth, conn the connection l (*ldap.Conn), deferred whether
\* "defer l.Close()" ran, log the requests made to the directory, in order,
\* err and auth the named results.
VARIABLES pc, data, conn, deferred, log, err, auth

syncVars == <<pc, data, conn, deferred, log, err, auth>>

vars == <<Entries, config, users, groups, last, first, syncVars>>

-----------------------------------------------------------------------------
(* Bounds of the model *)

MaxFilters == 2

MaxGroups == 2

MaxEntries == 5

-----------------------------------------------------------------------------
(* Strings *)

LowerChar(c) ==
  IF c = "D" THEN "d" ELSE IF c = "N" THEN "n" ELSE c

ToLower(s) == [i \in DOMAIN s |-> LowerChar(s[i])]

dn == <<"d", "n">>

IsDN(name) == ToLower(name) = dn

IsDNCaseSensitive(name) == name = dn

\* s without its first k elements
Drop(s, k) == SubSeq(s, k + 1, Len(s))

-----------------------------------------------------------------------------
(* regexp: literals, "." and a postfix "*"; the pattern alphabet has no     *)
(* ")" so every "(" is an unclosed group, which regexp.Compile rejects, as  *)
(* it rejects a "*" with nothing to repeat and a repeated "*".              *)

Compilable(p) ==
  /\ \A i \in DOMAIN p : p[i] # "("
  /\ (p # <<>> => p[1] # "*")
  /\ \A i \in DOMAIN p : (i > 1 /\ p[i] = "*") => p[i - 1] # "*"

RECURSIVE MatchHere(_, _)
RECURSIVE MatchStar(_, _, _)

MatchHere(p, t) ==
  IF p = <<>> THEN TRUE
  ELSE IF Len(p) >= 2 /\ p[2] = "*" THEN MatchStar(p[1], Drop(p, 2), t)
  ELSE IF t # <<>> /\ (p[1] = "." \/ p[1] = t[1]) THEN MatchHere(Tail(p), Tail(t))
  ELSE FALSE

MatchStar(c, p, t) ==
  \/ MatchHere(p, t)
  \/ /\ t # <<>>
     /\ (c = "." \/ c = t[1])
     /\ MatchStar(c, p, Tail(t))

\* Regexp.MatchString: the pattern matches somewhere in t
MatchString(p, t) == \E k \in 0..Len(t) : MatchHere(p, Drop(t, k))

-----------------------------------------------------------------------------
(* Entries *)

Nil == 0

ContainsAttributeValue(ent, attr, value) ==
  \E i \in DOMAIN ent.Attributes :
    /\ ent.Attributes[i].Name = attr
    /\ \E j \in DOMAIN ent.Attributes[i].Values : ent.Attributes[i].Values[j] = value

\* (exists, values) of the first attribute of that name
GetAttribute(ent, attribute) ==
  LET hits == {i \in DOMAIN ent.Attributes : ent.Attributes[i].Name = attribute}
  IN  IF hits = {} THEN [exist |-> FALSE, values |-> <<>>]
      ELSE LET i == CHOOSE k \in hits : \A h \in hits : k <= h
           IN  [exist |-> TRUE, values |-> ent.Attributes[i].Values]

-----------------------------------------------------------------------------
(* Filter expressions.  compiledValue is <<>> for a nil *Regexp and <<p>>   *)
(* for the Regexp compiled from the pattern p.                              *)

Expr(name, value) ==
  [Name |-> name, Value |-> value, compiledValue |-> <<>>, compiledSuccessfully |-> FALSE]

\* Whether fe.compile() gets as far as calling regexp.Compile
CallsRegexpCompile(fe) == ~fe.compiledSuccessfully

FilterExpression_compile(fe) ==
  IF fe.compiledSuccessfully THEN fe
  ELSE IF Compilable(fe.Value)
       THEN [fe EXCEPT !.compiledValue = <<fe.Value>>, !.compiledSuccessfully = TRUE]
       ELSE fe

\* The values ContainsAttribute tests, in order
ValuesNamed(ent, name) ==
  LET RECURSIVE Collect(_)
      Collect(i) ==
        IF i > Len(ent.Attributes) THEN <<>>
        ELSE (IF ent.Attributes[i].Name = name THEN ent.Attributes[i].Values ELSE <<>>)
             \o Collect(i + 1)
  IN  Collect(1)

\* A nil compiledValue is dereferenced by MatchString on the first value
\* tested; compiled tells whether ff.compile() called regexp.Compile
ContainsAttribute(ent, ff) ==
  LET c == FilterExpression_compile(ff)
      vals == ValuesNamed(ent, c.Name)
  IN  IF vals = <<>>
      THEN [m |-> FALSE, panicked |-> FALSE, compiled |-> CallsRegexpCompile(ff)]
      ELSE IF c.compiledValue = <<>>
      THEN [m |-> FALSE, panicked |-> TRUE, compiled |-> CallsRegexpCompile(ff)]
      ELSE [m |-> \E j \in DOMAIN vals : MatchString(c.compiledValue[1], vals[j]),
            panicked |-> FALSE, compiled |-> CallsRegexpCompile(ff)]

DNEqualsAsRegexp(ent, ff) == Compilable(ff.Value) /\ MatchString(ff.Value, ent.DN)

DNEquals(ent, ff) == ent.DN = ff.Value

-----------------------------------------------------------------------------
(* Filters *)

And == 0

Or == 1

Filter(op, filters, filterGroups) ==
  [Operator |-> op, Filters |-> filters, FilterGroups |-> filterGroups, compiled |-> FALSE]

RECURSIVE LDAPFilter_compile(_)
RECURSIVE Matches(_, _, _)
RECURSIVE AndLoop(_, _, _, _, _, _, _)
RECURSIVE AndStep(_, _, _, _, _, _, _)
RECURSIVE OrLoop(_, _, _, _, _, _)
RECURSIVE OrStep(_, _, _, _, _, _, _)
RECURSIVE Compilations(_, _)

LDAPFilter_compile(lf) ==
  [lf EXCEPT !.Filters = [i \in DOMAIN lf.Filters |-> FilterExpression_compile(lf.Filters[i])],
             !.FilterGroups = [i \in DOMAIN lf.FilterGroups |-> LDAPFilter_compile(lf.FilterGroups[i])],
             !.compiled = TRUE]

\* A call of regexp.Compile on the Value of expression i of the node at path
Compilation(path, i) == [node |-> path, idx |-> i]

\* The calls of regexp.Compile that lf.compile() makes, in order
Compilations(lf, path) ==
  LET RECURSIVE Own(_)
      Own(i) ==
        IF i > Len(lf.Filters) THEN <<>>
        ELSE (IF CallsRegexpCompile(lf.Filters[i]) THEN <<Compilation(path, i)>> ELSE <<>>)
             \o Own(i + 1)
      RECURSIVE Below(_)
      Below(i) ==
        IF i > Len(lf.FilterGroups) THEN <<>>
        ELSE Compilations(lf.FilterGroups[i], Append(path, i)) \o Below(i + 1)
  IN  Own(1) \o Below(1)

NumItems(f) == Len(f.Filters) + Len(f.FilterGroups)

\* An evaluated expression or child group of the node at path
Event(f, path, i, m) ==
  [node |-> path, op |-> f.Operator, idx |-> i, res |-> m]

\* The verdict of expression i of the node at path, which evaluates nothing
\* below it
Leaf(r, path, i) ==
  [m |-> r.m, panicked |-> r.panicked, trace |-> <<>>,
   compiles |-> IF r.compiled THEN <<Compilation(path, i)>> ELSE <<>>]

EvalExpression(ent, ff) ==
  IF IsDN(ff.Name)
  THEN [m |-> DNEquals(ent, ff), panicked |-> FALSE, compiled |-> FALSE]
  ELSE ContainsAttribute(ent, ff)

\* The i-th item of node f against ent: the expressions, then the child groups
EvalItem(f, ent, path, i) ==
  IF i <= Len(f.Filters)
  THEN Leaf(EvalExpression(ent, f.Filters[i]), path, i)
  ELSE Matches(f.FilterGroups[i - Len(f.Filters)], ent, Append(path, i - Len(f.Filters)))

AndNeverStops(matched) == FALSE

AndStops(matched) == ~matched

OrStops(matched) == matched

InitialM == FALSE

\* What a loop returns: the verdict, whether a nil compiledValue was
\* dereferenced, the items evaluated so far and the calls of regexp.Compile
\* made so far
Verdict(m, panicked, trace, cs) ==
  [m |-> m, panicked |-> panicked, trace |-> trace, compiles |-> cs]

\* The And loops (expressions, then child groups) from item i on; r is the
\* evaluation of item i
AndLoop(f, ent, path, i, m, trace, cs) ==
  IF i > NumItems(f) THEN Verdict(m, FALSE, trace, cs)
  ELSE AndStep(f, ent, path, i, trace, cs, EvalItem(f, ent, path, i))

AndStep(f, ent, path, i, trace, cs, r) ==
  IF r.panicked THEN Verdict(FALSE, TRUE, trace \o r.trace, cs \o r.compiles)
  ELSE IF AndStops(r.m)
       THEN Verdict(FALSE, FALSE, (trace \o r.trace) \o <<Event(f, path, i, r.m)>>,
                    cs \o r.compiles)
       ELSE AndLoop(f, ent, path, i + 1, TRUE,
                    (trace \o r.trace) \o <<Event(f, path, i, r.m)>>, cs \o r.compiles)

\* The Or loops
OrLoop(f, ent, path, i, trace, cs) ==
  IF i > NumItems(f) THEN Verdict(InitialM, FALSE, trace, cs)
  ELSE OrStep(f, ent, path, i, trace, cs, EvalItem(f, ent, path, i))

OrStep(f, ent, path, i, trace, cs, r) ==
  IF r.panicked THEN Verdict(FALSE, TRUE, trace \o r.trace, cs \o r.compiles)
  ELSE IF OrStops(r.m)
       THEN Verdict(TRUE, FALSE, (trace \o r.trace) \o <<Event(f, path, i, r.m)>>,
                    cs \o r.compiles)
       ELSE OrLoop(f, ent, path, i + 1,
                   (trace \o r.trace) \o <<Event(f, path, i, r.m)>>, cs \o r.compiles)

\* The switch on the operator of the compiled node g; cs are the calls of
\* regexp.Compile made by g.compile() in this call
Switch(g, ent, path, cs) ==
  IF g.Operator = And THEN AndLoop(g, ent, path, 1, InitialM, <<>>, cs)
  ELSE IF g.Operator = Or THEN OrLoop(g, ent, path, 1, <<>>, cs)
  ELSE Verdict(InitialM, FALSE, <<>>, cs)

\* The verdict r, with the filter as the call leaves it
Returned(r, g) ==
  [m |-> r.m, panicked |-> r.panicked, trace |-> r.trace, compiles |-> r.compiles, f |-> g]

MatchesCompiled(g, ent, path, cs) == Returned(Switch(g, ent, path, cs), g)

\* Matches on a non-nil entry
Matches(f, ent, path) ==
  IF f.compiled THEN MatchesCompiled(f, ent, path, <<>>)
  ELSE MatchesCompiled(LDAPFilter_compile(f), ent, path, Compilations(f, path))

\* f.Matches(p) for a pointer p into Entries
MatchesPtr(f, p) ==
  IF p = Nil
  THEN [m |-> FALSE, panicked |-> FALSE, trace |-> <<>>, compiles |-> <<>>, f |-> f]
  ELSE Matches(f, Entries[p], <<>>)

-----------------------------------------------------------------------------
(* Membership associator *)

Constraint(userAttribute, groupAttribute) ==
  [UserAttribute |-> userAttribute, GroupAttribute |-> groupAttribute]

Associator(op, constraints, additionalRules) ==
  [Operator |-> op, Constraints |-> constraints, AdditionalRules |-> additionalRules]

Intersects(uValues, gValues) ==
  \E i \in DOMAIN uValues : \E j \in DOMAIN gValues : uValues[i] = gValues[j]

Constraint_IsMemberNoFold(c, user, group) ==
  IF IsDNCaseSensitive(c.UserAttribute)
  THEN IF IsDNCaseSensitive(c.GroupAttribute)
       THEN user.DN = group.DN
       ELSE ContainsAttributeValue(group, c.GroupAttribute, user.DN)
  ELSE IF IsDNCaseSensitive(c.GroupAttribute)
       THEN ContainsAttributeValue(user, c.UserAttribute, group.DN)
       ELSE LET u == GetAttribute(user, c.UserAttribute)
                g == GetAttribute(group, c.GroupAttribute)
            IN  u.exist /\ g.exist /\ Intersects(u.values, g.values)

Constraint_IsMember(c, user, group) ==
  IF IsDN(c.UserAttribute)
  THEN IF IsDN(c.GroupAttribute)
       THEN user.DN = group.DN
       ELSE ContainsAttributeValue(group, c.GroupAttribute, user.DN)
  ELSE IF IsDN(c.GroupAttribute)
       THEN ContainsAttributeValue(user, c.UserAttribute, group.DN)
       ELSE LET u == GetAttribute(user, c.UserAttribute)
            IN  IF u.exist
                THEN LET g == GetAttribute(group, c.GroupAttribute)
                     IN  IF g.exist THEN Intersects(u.values, g.values) ELSE FALSE
                ELSE FALSE

RECURSIVE GroupMembershipAssociator_IsMember(_, _, _)

\* The loops have no effect but their verdict: the first failing (And) or
\* succeeding (Or) constraint or rule decides, so they are quantifiers.
GroupMembershipAssociator_IsMember(gmf, user, group) ==
  IF gmf.Operator = And
  THEN /\ \A i \in DOMAIN gmf.Constraints : Constraint_IsMember(gmf.Constraints[i], user, group)
       /\ \A i \in DOMAIN gmf.AdditionalRules :
            GroupMembershipAssociator_IsMember(gmf.AdditionalRules[i], user, group)
  ELSE IF gmf.Operator = Or
  THEN \/ \E i \in DOMAIN gmf.Constraints : Constraint_IsMember(gmf.Constraints[i], user, group)
       \/ \E i \in DOMAIN gmf.AdditionalRules :
            GroupMembershipAssociator_IsMember(gmf.AdditionalRules[i], user, group)
  ELSE FALSE

-----------------------------------------------------------------------------
(* LDAPRecords.  sr is [users, groups, config]: a method with a value       *)
(* receiver works on a copy of users and groups, while config is a pointer  *)
(* and what a call does to the filters behind it stays.                     *)

\* The entries (as pointers, in order, from the i-th on) that f matches,
\* added to acc; f is compiled by the first Matches call.  r is the
\* Matches call on entry i.
RECURSIVE Classify(_, _, _, _)
RECURSIVE ClassifyStep(_, _, _, _)

KeepInFront(acc, i) == <<i>> \o acc

Keep(acc, i) == Append(acc, i)

Classify(f, i, acc, evals) ==
  IF i > Len(Entries) THEN [ents |-> acc, panicked |-> FALSE, f |-> f, evals |-> evals]
  ELSE ClassifyStep(i, acc, evals, MatchesPtr(f, i))

ClassifyStep(i, acc, evals, r) ==
  IF r.panicked
  THEN [ents |-> <<>>, panicked |-> TRUE, f |-> r.f, evals |-> evals + 1]
  ELSE Classify(r.f, i + 1, IF r.m THEN Keep(acc, i) ELSE acc, evals + 1)

IsCached(list) == list # <<>>

\* sr.users = ents after the loop c over the entries, unless it panicked
UsersClassified(sr, c) ==
  IF c.panicked
  THEN [ret |-> <<>>, panicked |-> TRUE,
        sr |-> [sr EXCEPT !.config.UserFilter = c.f], evals |-> c.evals]
  ELSE [ret |-> c.ents, panicked |-> FALSE,
        sr |-> [sr EXCEPT !.config.UserFilter = c.f, !.users = c.ents], evals |-> c.evals]

GetUsers(sr) ==
  IF IsCached(sr.users)
  THEN [ret |-> sr.users, panicked |-> FALSE, sr |-> sr, evals |-> 0]
  ELSE UsersClassified(sr, Classify(sr.config.UserFilter, 1, <<>>, 0))

GroupsClassified(sr, c) ==
  IF c.panicked
  THEN [ret |-> <<>>, panicked |-> TRUE,
        sr |-> [sr EXCEPT !.config.GroupFilter = c.f], evals |-> c.evals]
  ELSE [ret |-> c.ents, panicked |-> FALSE,
        sr |-> [sr EXCEPT !.config.GroupFilter = c.f, !.groups = c.ents], evals |-> c.evals]

GetGroups(sr) ==
  IF IsCached(sr.groups)
  THEN [ret |-> sr.groups, panicked |-> FALSE, sr |-> sr, evals |-> 0]
  ELSE GroupsClassified(sr, Classify(sr.config.GroupFilter, 1, <<>>, 0))

\* The last pointer of list whose entry has that DN, Nil when there is none
Lookup(list, d) ==
  LET hits == {i \in DOMAIN list : Entries[list[i]].DN = d}
  IN  IF hits = {} THEN Nil
      ELSE list[CHOOSE k \in hits : \A h \in hits : h <= k]

IsMemberResult(m, panicked, sr, evals, assocEvals) ==
  [m |-> m, panicked |-> panicked, sr |-> sr, evals |-> evals, assocEvals |-> assocEvals]

\* After both lookups: gg is found, u is the GetUsers call, uu the user found
IsMemberResolved(gg, uu, u, evals) ==
  IF u.panicked THEN IsMemberResult(FALSE, TRUE, u.sr, evals + u.evals, 0)
  ELSE IF uu = Nil THEN IsMemberResult(FALSE, FALSE, u.sr, evals + u.evals, 0)
  ELSE IsMemberResult(GroupMembershipAssociator_IsMember(u.sr.config.GroupMembership,
                                                         Entries[uu], Entries[gg]),
                      FALSE, u.sr, evals + u.evals, 1)

IsMemberUsers(user, gg, evals, u) == IsMemberResolved(gg, Lookup(u.ret, user), u, evals)

\* After the group lookup: g is the GetGroups call, gg the group found
IsMemberGroup(user, g, gg) ==
  IF g.panicked THEN IsMemberResult(FALSE, TRUE, g.sr, g.evals, 0)
  ELSE IF gg = Nil THEN IsMemberResult(FALSE, FALSE, g.sr, g.evals, 0)
  ELSE IsMemberUsers(user, gg, g.evals, GetUsers(g.sr))

IsMemberGroups(user, group, g) == IsMemberGroup(user, g, Lookup(g.ret, group))

LDAPRecords_IsMember(sr, user, group) == IsMemberGroups(user, group, GetGroups(sr))

\* strings.Split on a one-character separator
RECURSIVE Split(_, _)

Split(s, sep) ==
  LET cut == {i \in DOMAIN s : s[i] = sep}
  IN  IF cut = {} THEN <<s>>
      ELSE LET i == CHOOSE k \in cut : \A h \in cut : k <= h
           IN  <<SubSeq(s, 1, i - 1)>> \o Split(Drop(s, i), sep)

simpleName(d) ==
  LET x == Split(Split(d, ",")[1], "=")
  IN  IF Len(x) > 1 THEN x[2] ELSE <<>>

NoUG == [Users |-> <<>>, Groups |-> <<>>]

NewGroup(g) == [DN |-> Entries[g].DN, ID |-> simpleName(Entries[g].DN), Members |-> <<>>]

NewUser(u) == [DN |-> Entries[u].DN, ID |-> simpleName(Entries[u].DN)]

AddMemberInFront(members, u) == <<Entries[u].DN>> \o members

AddMember(members, u) == Append(members, Entries[u].DN)

\* The loops over users, and for each user over ug.Groups, as one loop over
\* the pairs k = (i, j) in that order; r is the IsMember call of pair k
RECURSIVE MemberLoop(_, _, _, _, _)
RECURSIVE MemberStep(_, _, _, _, _, _, _)

MemberLoop(sr, us, ugGroups, k, evals) ==
  IF k > Len(us) * Len(ugGroups)
  THEN [Groups |-> ugGroups, panicked |-> FALSE, sr |-> sr, evals |-> evals]
  ELSE MemberStep(us, ugGroups, k, evals,
                  ((k - 1) \div Len(ugGroups)) + 1, ((k - 1) % Len(ugGroups)) + 1,
                  LDAPRecords_IsMember(sr, Entries[us[((k - 1) \div Len(ugGroups)) + 1]].DN,
                                       ugGroups[((k - 1) % Len(ugGroups)) + 1].DN))

MemberStep(us, ugGroups, k, evals, i, j, r) ==
  IF r.panicked
  THEN [Groups |-> ugGroups, panicked |-> TRUE, sr |-> r.sr, evals |-> evals + r.evals]
  ELSE MemberLoop(r.sr, us,
                  IF r.m
                  THEN [ugGroups EXCEPT ![j].Members = AddMember(@, us[i])]
                  ELSE ugGroups,
                  k + 1, evals + r.evals)

UGResult(ug, panicked, cfg, evals) ==
  [ug |-> ug, panicked |-> panicked, config |-> cfg, evals |-> evals]

\* u and g are the GetUsers and GetGroups calls, l the loops over the pairs
Projected(u, l) ==
  IF l.panicked THEN UGResult(NoUG, TRUE, l.sr.config, l.evals)
  ELSE UGResult([Users |-> [i \in DOMAIN u.ret |-> NewUser(u.ret[i])], Groups |-> l.Groups],
                FALSE, l.sr.config, l.evals)

ProjectGroups(u, g) ==
  IF g.panicked THEN UGResult(NoUG, TRUE, g.sr.config, u.evals + g.evals)
  ELSE Projected(u, MemberLoop(g.sr, u.ret, [j \in DOMAIN g.ret |-> NewGroup(g.ret[j])], 1,
                               u.evals + g.evals))

ProjectUsers(u) ==
  IF u.panicked THEN UGResult(NoUG, TRUE, u.sr.config, u.evals)
  ELSE ProjectGroups(u, GetGroups(u.sr))

GetUsersAndGroups(sr) == ProjectUsers(GetUsers(sr))

-----------------------------------------------------------------------------
(* The strings of the inputs *)

sOC == <<"o", "c">>

sUID == <<"u", "i", "d">>

sMU == <<"m", "u">>

sMember == <<"m", "b">>

sMOf == <<"m", "o">>

sUpperDN == <<"D", "N">>

sMixedDN == <<"D", "n">>

dnUA == <<"u", "=", "a">>

dnUB == <<"u", "=", "b">>

dnUC == <<"u", "=", "c">>

dnGX == <<"g", "=", "x">>

dnGY == <<"g", "=", "y">>

dnUAB == <<"u", "=", "a", "b">>

dnUnknown == <<"z">>

Attr(name, values) == [Name |-> name, Values |-> values]

Entry(d, attributes) == [DN |-> d, Attributes |-> attributes]

\* The sequences over S of length at most n
SeqsUpTo(S, n) == UNION {[1..k -> S] : k \in 0..n}

\* The elements of s at the indices S, in the order of s
Pick(s, S) ==
  [k \in 1..Cardinality(S) |-> s[CHOOSE i \in S : Cardinality({j \in S : j < i}) = k - 1]]

\* The subsequences of s of length at most n, in the order of s
SubSeqsUpTo(s, n) == {Pick(s, S) : S \in {T \in SUBSET DOMAIN s : Cardinality(T) <= n}}

-----------------------------------------------------------------------------
(* The state: one LDAPRecords value (Entries, users, groups) and the        *)
(* LDAPSyncConfig its config points to.  last is the last call and what it  *)
(* returned; first holds what the first GetUsers and GetGroups returned.    *)

NoCall ==
  [op |-> "none", p |-> Nil, user |-> <<>>, group |-> <<>>, c |-> Constraint(<<>>, <<>>),
   m |-> FALSE, am |-> FALSE, panicked |-> FALSE, ret |-> <<>>, trace |-> <<>>,
   evals |-> 0, assocEvals |-> 0, ug |-> NoUG, again |-> FALSE,
   compiles |-> <<>>, calls |-> 0]

NoFirst == [users |-> <<>>, groups |-> <<>>]

NilErr == <<>>

NoAuth == [Success |-> FALSE, ErrorMessage |-> <<>>]

NoData == [TLS |-> <<>>, UID |-> <<>>, User |-> <<>>, URDNs |-> <<>>, Password |-> <<>>]

\* No call of Do or Auth is under way.
NoSync ==
  /\ pc = "none"
  /\ data = NoData
  /\ conn = "nil"
  /\ deferred = FALSE
  /\ log = <<>>
  /\ err = NilErr
  /\ auth = NoAuth

SR == [users |-> users, groups |-> groups, config |-> config]

NoFilter == Filter(Or, <<>>, <<>>)

NoAssociator == Associator(Or, <<>>, <<>>)

-----------------------------------------------------------------------------
(* SpecMatches: LDAPFilter.Matches on one filter and one entry *)

MatchExprs ==
  { Expr(sUpperDN, dnUA),
    Expr(sOC, <<"p">>),
    Expr(sOC, <<"(">>),
    Expr(sUID, <<"a", "*", "b">>),
    Expr(sMixedDN, <<"u", "=", ".">>) }

MatchChildren ==
  { Filter(And, <<>>, <<>>),
    Filter(Or, <<>>, <<>>),
    Filter(Or, <<Expr(sOC, <<"p">>), Expr(dn, dnUB)>>, <<>>),
    Filter(And, <<Expr(sUID, <<".", "b">>), Expr(sOC, <<"p">>)>>, <<>>) }

MatchFilters ==
  { Filter(op, fs, gs) : op \in {And, Or}, fs \in SeqsUpTo(MatchExprs, MaxFilters),
                         gs \in SeqsUpTo(MatchChildren, MaxGroups) }

MatchEntries ==
  { Entry(dnUA, <<Attr(sOC, << <<"p">> >>), Attr(sUID, << <<"c">>, <<"a", "a", "b">> >>)>>),
    Entry(dnUB, <<Attr(dn, <<dnUA>>), Attr(sOC, << <<"q">>, <<"x", "p">> >>)>>),
    Entry(dnGX, <<>>),
    Entry(dnUAB, <<Attr(sOC, <<>>), Attr(sUID, << <<"b">> >>)>>) }

InitMatches ==
  /\ Entries \in {<<e>> : e \in MatchEntries}
  /\ config \in {[UserFilter |-> f, GroupFilter |-> NoFilter, GroupMembership |-> NoAssociator] :
                   f \in MatchFilters}
  /\ users = <<>>
  /\ groups = <<>>
  /\ last = NoCall
  /\ first = NoFirst
  /\ NoSync

\* config.UserFilter.Matches(p), p nil or a pointer to an entry; r is what
\* the call returns
MatchesReturns(p, r) ==
  /\ config' = [config EXCEPT !.UserFilter = r.f]
  /\ last' = [NoCall EXCEPT !.op = "Matches", !.p = p, !.m = r.m, !.panicked = r.panicked,
                            !.trace = r.trace, !.again = config.UserFilter.compiled]
  /\ UNCHANGED <<Entries, users, groups, first>>
  /\ UNCHANGED syncVars

MatchesCall(p) == MatchesReturns(p, MatchesPtr(config.UserFilter, p))

NextMatches == \E p \in 0..Len(Entries) : MatchesCall(p)

SpecMatches == InitMatches /\ [][NextMatches]_vars

-----------------------------------------------------------------------------
(* Claims about LDAPFilter.Matches, under SpecMatches *)

\* The node of filter tree f at path
RECURSIVE NodeAt(_, _)

NodeAt(f, path) ==
  IF path = <<>> THEN f ELSE NodeAt(f.FilterGroups[Head(path)], Tail(path))

IsPrefix(a, b) == Len(a) <= Len(b) /\ SubSeq(b, 1, Len(a)) = a

MatchedEntry == last.op = "Matches" /\ last.p # Nil

EmptyNode(f) == f.Filters = <<>> /\ f.FilterGroups = <<>>

\* The events of the last call that are the verdict of an expression
ExprEvents ==
  {k \in DOMAIN last.trace :
     last.trace[k].idx <= Len(NodeAt(config.UserFilter, last.trace[k].node).Filters)}

ExprOf(k) == NodeAt(config.UserFilter, last.trace[k].node).Filters[last.trace[k].idx]

\* C1: Matches on a non-nil entry is true for an And node with no expression
\* and no child group, and false for such an Or node.
C1_EmptyNodes ==
  (MatchedEntry /\ EmptyNode(config.UserFilter))
    => (last.m <=> config.UserFilter.Operator = And)

\* C2: an expression whose Value does not compile (and whose Name is not
\* "dn") never makes Matches raise and is treated as not matched, on the
\* first and on every later evaluation.
C2_InvalidRegexpNeverRaises ==
  MatchedEntry =>
    /\ ~last.panicked
    /\ \A k \in ExprEvents :
         (~IsDN(ExprOf(k).Name) /\ ~Compilable(ExprOf(k).Value)) => ~last.trace[k].res

\* An event after which the loop of its node has to stop
Decides(e) == (e.op = And /\ ~e.res) \/ (e.op = Or /\ e.res)

\* C9: within a node the items are evaluated in list order, expressions
\* before child groups, and once an item decides the node (a failure in an
\* And node, a match in an Or node) nothing more of that node, or below it,
\* is evaluated.
C9_ShortCircuit ==
  MatchedEntry =>
    \A k, l \in DOMAIN last.trace :
      k < l =>
        /\ Decides(last.trace[k]) => ~IsPrefix(last.trace[k].node, last.trace[l].node)
        /\ last.trace[k].node = last.trace[l].node => last.trace[k].idx < last.trace[l].idx

\* An And node stopped by a failing item, and an Or node stopped by a
\* matching item, each with items left that were not evaluated
C9_Witness ==
  /\ MatchedEntry
  /\ ~last.panicked
  /\ \E k \in DOMAIN last.trace :
       /\ last.trace[k].op = And
       /\ ~last.trace[k].res
       /\ last.trace[k].idx < NumItems(NodeAt(config.UserFilter, last.trace[k].node))
  /\ \E k \in DOMAIN last.trace :
       /\ last.trace[k].op = Or
       /\ last.trace[k].res
       /\ last.trace[k].idx < NumItems(NodeAt(config.UserFilter, last.trace[k].node))

\* C10: an expression named "dn" in any letter case matches iff the entry's
\* DN equals its Value as a string.
C10_DNIsLiteral ==
  MatchedEntry =>
    \A k \in ExprEvents :
      IsDN(ExprOf(k).Name) => (last.trace[k].res <=> Entries[last.p].DN = ExprOf(k).Value)

\* A "Dn" expression that did not match a DN its Value matches as a regular
\* expression, and a "DN" expression that did not match an entry whose
\* attribute "dn" has its Value
C10_Witness ==
  /\ MatchedEntry
  /\ \E k \in ExprEvents :
       /\ ExprOf(k).Name = sMixedDN
       /\ ~last.trace[k].res
       /\ MatchString(ExprOf(k).Value, Entries[last.p].DN)
  /\ \E k \in ExprEvents :
       /\ ExprOf(k).Name = sUpperDN
       /\ ~last.trace[k].res
       /\ ContainsAttributeValue(Entries[last.p], dn, ExprOf(k).Value)

-----------------------------------------------------------------------------
(* SpecMember: Constraint.IsMember and GroupMembershipAssociator.IsMember   *)
(* on a user entry (Entries[1]) and a group entry (Entries[2]).  UserFilter *)
(* is the filter tree of the shape of GroupMembership whose expressions     *)
(* match the user entry exactly where the constraints hold of the pair.     *)

MemberConstraints ==
  { Constraint(sUpperDN, dn),
    Constraint(sMixedDN, sMember),
    Constraint(sMOf, sUpperDN),
    Constraint(sUID, sMU) }

MemberRules ==
  { Associator(And, <<>>, <<>>),
    Associator(Or, <<>>, <<>>),
    Associator(Or, <<Constraint(sUID, sMU), Constraint(dn, dn)>>, <<>>) }

MemberAssociators ==
  { Associator(op, cs, rs) : op \in {And, Or}, cs \in SeqsUpTo(MemberConstraints, MaxFilters),
                             rs \in SeqsUpTo(MemberRules, MaxGroups) }

MemberUsers ==
  { Entry(dnUA, <<Attr(sUID, << <<"a">> >>), Attr(sMOf, <<dnGX>>)>>),
    Entry(dnUB, <<Attr(sUID, << <<"c">>, <<"b">> >>)>>),
    Entry(dnGX, <<Attr(sUID, <<>>)>>) }

MemberGroups ==
  { Entry(dnGX, <<Attr(sMU, << <<"a">>, <<"b">> >>), Attr(sMember, <<dnUB>>)>>),
    Entry(dnGY, <<Attr(sMU, << <<"x">> >>)>>),
    Entry(dnUB, <<>>) }

RECURSIVE MirrorFilter(_, _, _)

MirrorFilter(a, user, group) ==
  Filter(a.Operator,
         [i \in DOMAIN a.Constraints |->
            Expr(dn, IF Constraint_IsMember(a.Constraints[i], user, group)
                     THEN user.DN ELSE dnUnknown)],
         [j \in DOMAIN a.AdditionalRules |-> MirrorFilter(a.AdditionalRules[j], user, group)])

InitMember ==
  /\ Entries \in {<<u, g>> : u \in MemberUsers, g \in MemberGroups}
  /\ config \in {[UserFilter |-> MirrorFilter(a, Entries[1], Entries[2]),
                  GroupFilter |-> NoFilter, GroupMembership |-> a] : a \in MemberAssociators}
  /\ users = <<>>
  /\ groups = <<>>
  /\ last = NoCall
  /\ first = NoFirst
  /\ NoSync

\* config.GroupMembership.Constraints[i].IsMember(user, group)
ConstraintCall(i) ==
  LET c == config.GroupMembership.Constraints[i]
  IN  /\ last' = [NoCall EXCEPT !.op = "Constraint", !.c = c,
                                !.m = Constraint_IsMember(c, Entries[1], Entries[2])]
      /\ UNCHANGED <<Entries, config, users, groups, first>>
      /\ UNCHANGED syncVars

\* config.GroupMembership.IsMember(user, group), and config.UserFilter.Matches(user)
\* returning r
MirrorReturns(r) ==
  /\ config' = [config EXCEPT !.UserFilter = r.f]
  /\ last' = [NoCall EXCEPT !.op = "Mirror", !.p = 1, !.m = r.m, !.panicked = r.panicked,
                            !.trace = r.trace, !.again = config.UserFilter.compiled,
                            !.am = GroupMembershipAssociator_IsMember(
                                     config.GroupMembership, Entries[1], Entries[2])]
  /\ UNCHANGED <<Entries, users, groups, first>>
  /\ UNCHANGED syncVars

MirrorCall == MirrorReturns(MatchesPtr(config.UserFilter, 1))

NextMember ==
  \/ \E i \in DOMAIN config.GroupMembership.Constraints : ConstraintCall(i)
  \/ MirrorCall

SpecMember == InitMember /\ [][NextMember]_vars

-----------------------------------------------------------------------------
(* Claims about the membership associator, under SpecMember *)

\* The values of the attribute of that name, none when the entry has none
ValueSet(ent, name) ==
  {v \in UNION {{a.Values[j] : j \in DOMAIN a.Values} :
                  a \in {ent.Attributes[i] : i \in DOMAIN ent.Attributes}} :
     ContainsAttributeValue(ent, name, v)}

LowerIsDN(name) ==
  /\ Len(name) = 2
  /\ name[1] \in {"d", "D"}
  /\ name[2] \in {"n", "N"}

\* C7: the four combinations of Constraint.IsMember, "dn" in any letter case
\* on either side: DN/DN is equality of the DNs, DN/attribute is the group's
\* attribute values containing the user's DN, attribute/DN is the user's
\* attribute values containing the group's DN, attribute/attribute is the
\* two value sets intersecting (false when either attribute is absent).
C7_ConstraintCombinations ==
  last.op = "Constraint" =>
    LET user == Entries[1]
        group == Entries[2]
        ua == last.c.UserAttribute
        ga == last.c.GroupAttribute
    IN  last.m <=>
          IF LowerIsDN(ua)
          THEN IF LowerIsDN(ga) THEN user.DN = group.DN
               ELSE user.DN \in ValueSet(group, ga)
          ELSE IF LowerIsDN(ga) THEN group.DN \in ValueSet(user, ua)
               ELSE ValueSet(user, ua) \cap ValueSet(group, ga) # {}

\* A "Dn"/attribute constraint that held: the group's attribute has the user's DN
C7_Witness ==
  /\ last.op = "Constraint"
  /\ last.c.UserAttribute = sMixedDN
  /\ ~LowerIsDN(last.c.GroupAttribute)
  /\ last.m

\* The filter tree f and the membership tree a have the same shape and, on
\* ent and on (user, group), the same leaf truth values
RECURSIVE SameShape(_, _, _, _, _)

SameShape(f, a, ent, user, group) ==
  /\ f.Operator = a.Operator
  /\ Len(f.Filters) = Len(a.Constraints)
  /\ Len(f.FilterGroups) = Len(a.AdditionalRules)
  /\ \A i \in DOMAIN f.Filters :
       LET r == EvalItem(f, ent, <<>>, i)
       IN  ~r.panicked /\ (r.m <=> Constraint_IsMember(a.Constraints[i], user, group))
  /\ \A j \in DOMAIN f.FilterGroups :
       SameShape(f.FilterGroups[j], a.AdditionalRules[j], ent, user, group)

\* C8: for the same tree shape and the same leaf truth values the associator
\* and the filter engine return the same verdict.
C8_SameVerdict ==
  (/\ last.op = "Mirror"
   /\ SameShape(config.UserFilter, config.GroupMembership, Entries[1], Entries[1], Entries[2]))
    => (~last.panicked /\ (last.am <=> last.m))

-----------------------------------------------------------------------------
(* Spec: one LDAPRecords snapshot as Do returns it, and the calls a caller  *)
(* makes on it.  config is unexported: a caller cannot change the filters.  *)

Directory ==
  << Entry(dnUA, <<Attr(sOC, << <<"p">> >>), Attr(sUID, << <<"a">> >>)>>),
     Entry(dnGX, <<Attr(sOC, << <<"g">> >>), Attr(sMU, << <<"a">>, <<"b">> >>)>>),
     Entry(dnUB, <<Attr(sOC, << <<"p">> >>), Attr(sUID, << <<"b">> >>)>>),
     Entry(dnGY, <<Attr(sOC, << <<"g">> >>), Attr(sMU, << <<"b">> >>)>>),
     Entry(dnUC, <<Attr(sOC, << <<"p">> >>), Attr(sUID, << <<"c">> >>)>>) >>

UserFilters ==
  { Filter(And, <<Expr(sOC, <<"p">>)>>, <<>>),
    Filter(Or, <<Expr(sUpperDN, dnUA), Expr(sUID, <<"b">>)>>, <<>>),
    Filter(And, <<Expr(sUID, <<"(">>)>>, <<>>),
    Filter(And, <<>>, <<>>),
    Filter(And, <<Expr(sOC, <<"p">>)>>,
           <<Filter(Or, <<Expr(sUID, <<"a">>), Expr(sUID, <<"c">>)>>, <<>>)>>) }

GroupFilters ==
  { Filter(And, <<Expr(sOC, <<"g">>)>>, <<>>),
    Filter(Or, <<Expr(dn, dnGX), Expr(sMU, <<"(">>)>>, <<>>),
    Filter(Or, <<Expr(sOC, <<"g">>), Expr(sUID, <<"a">>)>>, <<>>) }

Associators ==
  { Associator(And, <<Constraint(sUID, sMU)>>, <<>>),
    Associator(Or, <<Constraint(sUpperDN, dn), Constraint(sUID, sMU)>>, <<>>) }

UserDNs == {dnUA, dnGX, dnUnknown}

GroupDNs == {dnGX, dnUnknown}

Init ==
  /\ Entries \in SubSeqsUpTo(Directory, MaxEntries)
  /\ config \in {[UserFilter |-> uf, GroupFilter |-> gf, GroupMembership |-> a] :
                   uf \in UserFilters, gf \in GroupFilters, a \in Associators}
  /\ users = <<>>
  /\ groups = <<>>
  /\ last = NoCall
  /\ first = NoFirst
  /\ NoSync

\* sr.GetUsers() on the snapshot itself (pointer receiver), returning r
GetUsersReturns(r) ==
  /\ users' = r.sr.users
  /\ groups' = r.sr.groups
  /\ config' = r.sr.config
  /\ last' = [NoCall EXCEPT !.op = "GetUsers", !.ret = r.ret, !.panicked = r.panicked,
                            !.evals = r.evals, !.again = first.users # <<>>]
  /\ first' = IF first.users = <<>> /\ ~r.panicked
              THEN [first EXCEPT !.users = <<r.ret>>] ELSE first
  /\ UNCHANGED Entries
  /\ UNCHANGED syncVars

GetUsersCall == GetUsersReturns(GetUsers(SR))

\* sr.GetGroups(), returning r
GetGroupsReturns(r) ==
  /\ users' = r.sr.users
  /\ groups' = r.sr.groups
  /\ config' = r.sr.config
  /\ last' = [NoCall EXCEPT !.op = "GetGroups", !.ret = r.ret, !.panicked = r.panicked,
                            !.evals = r.evals, !.again = first.groups # <<>>]
  /\ first' = IF first.groups = <<>> /\ ~r.panicked
              THEN [first EXCEPT !.groups = <<r.ret>>] ELSE first
  /\ UNCHANGED Entries
  /\ UNCHANGED syncVars

GetGroupsCall == GetGroupsReturns(GetGroups(SR))

\* sr.IsMember(user, group), returning r
IsMemberReturns(user, group, r) ==
  /\ users' = r.sr.users
  /\ groups' = r.sr.groups
  /\ config' = r.sr.config
  /\ last' = [NoCall EXCEPT !.op = "IsMember", !.user = user, !.group = group, !.m = r.m,
                            !.panicked = r.panicked, !.evals = r.evals,
                            !.assocEvals = r.assocEvals]
  /\ UNCHANGED <<Entries, first>>
  /\ UNCHANGED syncVars

IsMemberCall(user, group) == IsMemberReturns(user, group, LDAPRecords_IsMember(SR, user, group))

\* sr.GetUsersAndGroups(), returning r: the receiver is a copy, so users and
\* groups of the snapshot stay as they are
GetUsersAndGroupsReturns(r) ==
  /\ config' = r.config
  /\ last' = [NoCall EXCEPT !.op = "GetUsersAndGroups", !.ug = r.ug,
                            !.panicked = r.panicked, !.evals = r.evals]
  /\ UNCHANGED <<Entries, users, groups, first>>
  /\ UNCHANGED syncVars

GetUsersAndGroupsCall == GetUsersAndGroupsReturns(GetUsersAndGroups(SR))

Next ==
  \/ GetUsersCall
  \/ GetGroupsCall
  \/ \E user \in UserDNs, group \in GroupDNs : IsMemberCall(user, group)
  \/ GetUsersAndGroupsCall

Spec == Init /\ [][Next]_vars

-----------------------------------------------------------------------------
(* SpecMutate: the same, with code of the package assigning a new filter    *)
(* to config.UserFilter or config.GroupFilter between the calls.            *)

SetUserFilter(f) ==
  /\ config' = [config EXCEPT !.UserFilter = f]
  /\ last' = [NoCall EXCEPT !.op = "SetUserFilter"]
  /\ UNCHANGED <<Entries, users, groups, first>>
  /\ UNCHANGED syncVars

SetGroupFilter(f) ==
  /\ config' = [config EXCEPT !.GroupFilter = f]
  /\ last' = [NoCall EXCEPT !.op = "SetGroupFilter"]
  /\ UNCHANGED <<Entries, users, groups, first>>
  /\ UNCHANGED syncVars

NextMutate ==
  \/ GetUsersCall
  \/ GetGroupsCall
  \/ \E f \in UserFilters : SetUserFilter(f)
  \/ \E f \in GroupFilters : SetGroupFilter(f)

SpecMutate == Init /\ [][NextMutate]_vars

-----------------------------------------------------------------------------
(* Claims about LDAPRecords, under Spec and SpecMutate *)

\* Entry i is matched by filter f (whatever f has compiled so far)
MatchedBy(f, i) ==
  LET r == MatchesPtr(f, i) IN ~r.panicked /\ r.m

\* list holds exactly the entries f matches, in the order of Entries
IsPartition(list, f) ==
  /\ \A i \in 1..Len(Entries) : (\E k \in DOMAIN list : list[k] = i) <=> MatchedBy(f, i)
  /\ \A k, l \in DOMAIN list : k < l => list[k] < list[l]

\* C3: a GetUsers (GetGroups) call after the first returns what the first
\* returned and evaluates no filter, whatever the filter has become since
\* and whether or not the first call matched any entry.
C3_Memoized ==
  /\ (last.op = "GetUsers" /\ last.again)
       => (~last.panicked /\ last.ret = first.users[1] /\ last.evals = 0)
  /\ (last.op = "GetGroups" /\ last.again)
       => (~last.panicked /\ last.ret = first.groups[1] /\ last.evals = 0)

DNsOf(list) == [k \in DOMAIN list |-> Entries[list[k]].DN]

DNsOfRecords(records) == [k \in DOMAIN records |-> records[k].DN]

ClassifiedUserDNs == {Entries[i].DN : i \in {k \in 1..Len(Entries) : MatchedBy(config.UserFilter, k)}}

ClassifiedGroupDNs == {Entries[i].DN : i \in {k \in 1..Len(Entries) : MatchedBy(config.GroupFilter, k)}}

\* C6: LDAPRecords.IsMember never raises; it is false, with no evaluation of
\* the associator, when the user DN is no classified user's or the group DN
\* no classified group's, and else the associator's verdict on the entries
\* the DNs resolve to.
C6_UnknownIsFalse ==
  last.op = "IsMember" =>
    /\ ~last.panicked
    /\ (last.user \notin ClassifiedUserDNs \/ last.group \notin ClassifiedGroupDNs)
         => (~last.m /\ last.assocEvals = 0)
    /\ (last.user \in ClassifiedUserDNs /\ last.group \in ClassifiedGroupDNs)
         => \E u, g \in 1..Len(Entries) :
              /\ Entries[u].DN = last.user
              /\ Entries[g].DN = last.group
              /\ last.m <=> GroupMembershipAssociator_IsMember(config.GroupMembership,
                                                               Entries[u], Entries[g])

-----------------------------------------------------------------------------
(* sync.go: Do and Auth against a directory server.  The server and the     *)
(* network are the environment: every request (DialTLS, DialURL, StartTLS,  *)
(* Bind, SearchWithPaging) succeeds or fails as the environment chooses.    *)
(* The transport mode (LDAPSyncConfig.TLS, LDAPAuthData.TLS) is only ever   *)
(* compared with "tls" and "starttls", so it is kept as a whole string.     *)

\* A request made to the directory and how it ended
Req(op, arg, ok, entries) == [op |-> op, arg |-> arg, ok |-> ok, entries |-> entries]

\* The error a failed request returns.  go-ldap and the net package build
\* their messages with a fixed non-empty prefix, so Error() is never "".
Error(op) == [op |-> op, msg |-> <<"e", "r", "r">>]

\* l.Close() when "defer l.Close()" was reached, at the return of Do or Auth
Deferred(c, d) == IF d THEN "closed" ELSE c

\* The requests logged when the function returns: the deferred Close, if any
Closing(d) == IF d THEN <<Req("Close", <<>>, TRUE, <<>>)>> ELSE <<>>

\* What a failed StartTLS leaves of the connection: the server refused the
\* extended operation (the connection stays open) or the TLS handshake
\* failed (go-ldap closes the connection itself before returning the error)
StartTLSOutcomes == {"ok", "refused", "handshake"}

AfterStartTLS(outcome) == IF outcome = "handshake" THEN "closed" ELSE "open"

\* fmt.Sprintf("%s=%s,%s", data.UID, data.User, data.URDNs)
username(d) == d.UID \o <<"=">> \o d.User \o <<",">> \o d.URDNs

\* What Auth returns as err when the bind was rejected
BindRejectedPropagates(e) == e

BindRejected(e) == NilErr

\* Auth, lines 92-103: dial, DialTLS for "tls" and DialURL otherwise
AuthDial(ok) ==
  /\ pc = "Auth"
  /\ log' = Append(log, Req(IF data.TLS = "tls" THEN "DialTLS" ELSE "DialURL", <<>>, ok, <<>>))
  /\ IF ok
     THEN /\ conn' = "open"
          /\ pc' = IF data.TLS = "starttls" THEN "AuthStartTLS" ELSE "AuthBind"
          /\ deferred' = (data.TLS # "starttls")
          /\ UNCHANGED <<err, auth>>
     ELSE /\ err' = Error(log'[Len(log')].op)
          /\ auth' = [auth EXCEPT !.ErrorMessage = err'.msg]
          /\ pc' = "AuthDone"
          /\ UNCHANGED <<conn, deferred>>
  /\ UNCHANGED <<Entries, config, users, groups, last, first, data>>

\* Auth, lines 104-117: StartTLS in starttls mode
AuthStartTLS(outcome) ==
  /\ pc = "AuthStartTLS"
  /\ log' = Append(log, Req("StartTLS", <<>>, outcome = "ok", <<>>))
  /\ conn' = AfterStartTLS(outcome)
  /\ IF outcome = "ok"
     THEN /\ pc' = "AuthBind"
          /\ deferred' = TRUE
          /\ UNCHANGED <<err, auth>>
     ELSE /\ err' = Error("StartTLS")
          /\ auth' = [auth EXCEPT !.ErrorMessage = err'.msg]
          /\ pc' = "AuthDone"
          /\ UNCHANGED deferred
  /\ UNCHANGED <<Entries, config, users, groups, last, first, data>>

\* Auth, lines 119-131: the bind and the return
AuthBind(ok) ==
  /\ pc = "AuthBind"
  /\ log' = Append(log, Req("Bind", username(data), ok, <<>>)) \o Closing(deferred)
  /\ conn' = Deferred(conn, deferred)
  /\ IF ok
     THEN /\ auth' = [auth EXCEPT !.Success = TRUE]
          /\ UNCHANGED err
     ELSE /\ auth' = [Success |-> FALSE, ErrorMessage |-> Error("Bind").msg]
          /\ err' = BindRejected(Error("Bind"))
  /\ pc' = "AuthDone"
  /\ UNCHANGED <<Entries, config, users, groups, last, first, data, deferred>>

NextAuth ==
  \/ \E ok \in BOOLEAN : AuthDial(ok)
  \/ \E outcome \in StartTLSOutcomes : AuthStartTLS(outcome)
  \/ \E ok \in BOOLEAN : AuthBind(ok)

Modes == {"none", "tls", "starttls"}

AuthDatas ==
  { [TLS |-> t, UID |-> u, User |-> n, URDNs |-> b, Password |-> <<"p">>] :
      t \in Modes, u \in {sUID, <<>>}, n \in {<<"a">>, <<"a", ",", "b">>},
      b \in {<<"o", "=", "x">>, <<>>} }

InitAuth ==
  /\ Entries = <<>>
  /\ config = [UserFilter |-> NoFilter, GroupFilter |-> NoFilter,
               GroupMembership |-> NoAssociator]
  /\ users = <<>>
  /\ groups = <<>>
  /\ last = NoCall
  /\ first = NoFirst
  /\ pc = "Auth"
  /\ data \in AuthDatas
  /\ conn = "nil"
  /\ deferred = FALSE
  /\ log = <<>>
  /\ err = NilErr
  /\ auth = NoAuth

SpecAuth == InitAuth /\ [][NextAuth]_vars

-----------------------------------------------------------------------------
(* Claims about Auth, under SpecAuth *)

Requests(op) == {k \in DOMAIN log : log[k].op = op}

Failed(op) == \E k \in Requests(op) : ~log[k].ok

Succeeded(op) == \E k \in Requests(op) : log[k].ok

Connected(k) ==
  /\ \E j \in 1..(k - 1) : log[j].op \in {"DialTLS", "DialURL"} /\ log[j].ok
  /\ \A j \in 1..(k - 1) : log[j].ok

\* C11: Auth binds with the DN "<UID>=<User>,<URDNs>", and only after the
\* dial (and StartTLS, in starttls mode) succeeded; when Auth has returned,
\* a rejected bind gives Success = false, a nil error and a non-empty
\* ErrorMessage, a failed dial or StartTLS gives a non-nil error and
\* Success = false, and Success = true comes only with a successful bind
\* and a nil error.
C11_AuthOutcome ==
  /\ \A k \in Requests("Bind") :
       /\ log[k].arg = data.UID \o <<"=">> \o data.User \o <<",">> \o data.URDNs
       /\ Connected(k)
       /\ data.TLS = "starttls" => \E j \in 1..(k - 1) : log[j].op = "StartTLS" /\ log[j].ok
  /\ pc = "AuthDone" =>
       /\ Failed("Bind") => ~auth.Success /\ err = NilErr /\ auth.ErrorMessage # <<>>
       /\ Failed("DialTLS") \/ Failed("DialURL") \/ Failed("StartTLS") =>
            err # NilErr /\ ~auth.Success
       /\ auth.Success => Succeeded("Bind") /\ err = NilErr

C11_Witness ==
  /\ pc = "AuthDone"
  /\ data.TLS = "starttls"
  /\ Failed("Bind")
  /\ data.User = <<"a", ",", "b">>

-----------------------------------------------------------------------------
(* SpecNames: GetUsersAndGroups on a snapshot of one entry, reported both   *)
(* as a user and as a group, whose DN is any string of "c", "=" and ",".    *)

MaxDN == 4

NameChars == {"c", "=", ","}

NameDNs == SeqsUpTo(NameChars, MaxDN)

EveryEntry == Filter(And, <<Expr(sOC, <<"p">>)>>, <<>>)

InitNames ==
  /\ Entries \in {<<Entry(d, <<Attr(sOC, << <<"p">> >>)>>)>> : d \in NameDNs}
  /\ config = [UserFilter |-> EveryEntry, GroupFilter |-> EveryEntry,
               GroupMembership |-> NoAssociator]
  /\ users = <<>>
  /\ groups = <<>>
  /\ last = NoCall
  /\ first = NoFirst
  /\ NoSync

NextNames == GetUsersAndGroupsCall

SpecNames == InitNames /\ [][NextNames]_vars

-----------------------------------------------------------------------------
(* Claims about simpleName, under SpecNames *)

\* The position of the first c in s, Len(s) + 1 when there is none
FirstIndex(s, c) ==
  IF \E k \in DOMAIN s : s[k] = c
  THEN CHOOSE k \in DOMAIN s : s[k] = c /\ \A j \in 1..(k - 1) : s[j] # c
  ELSE Len(s) + 1

FirstComponent(d) == SubSeq(d, 1, FirstIndex(d, ",") - 1)

AfterFirstEquals(c) == SubSeq(c, FirstIndex(c, "=") + 1, Len(c))

\* C12: the ID of every reported User and Group is the whole substring
\* after the first "=" of the first comma-separated component of its DN,
\* and the empty string when that component has no "=".
C12_IDIsFirstRDNValue ==
  last.op = "GetUsersAndGroups" =>
    /\ ~last.panicked
    /\ \A k \in DOMAIN last.ug.Users :
         last.ug.Users[k].ID = AfterFirstEquals(FirstComponent(last.ug.Users[k].DN))
    /\ \A k \in DOMAIN last.ug.Groups :
         last.ug.Groups[k].ID = AfterFirstEquals(FirstComponent(last.ug.Groups[k].DN))

-----------------------------------------------------------------------------
(* Full evaluation of a filter tree, under SpecMatches *)

\* An expression matches the entry: the DN is the Value for the name "dn",
\* else some value of the named attribute matches the regular expression
\* (a Value that does not compile matches nothing)
ExprMatches(ent, ff) ==
  IF ToLower(ff.Name) = dn THEN ent.DN = ff.Value
  ELSE /\ Compilable(ff.Value)
       /\ \E i \in DOMAIN ent.Attributes :
            /\ ent.Attributes[i].Name = ff.Name
            /\ \E j \in DOMAIN ent.Attributes[i].Values :
                 MatchString(ff.Value, ent.Attributes[i].Values[j])

RECURSIVE FullMatch(_, _)

FullMatch(f, ent) ==
  IF f.Operator = And
  THEN /\ \A i \in DOMAIN f.Filters : ExprMatches(ent, f.Filters[i])
       /\ \A i \in DOMAIN f.FilterGroups : FullMatch(f.FilterGroups[i], ent)
  ELSE \/ \E i \in DOMAIN f.Filters : ExprMatches(ent, f.Filters[i])
       \/ \E i \in DOMAIN f.FilterGroups : FullMatch(f.FilterGroups[i], ent)

RECURSIVE NoEmptyNode(_)

NoEmptyNode(f) ==
  /\ ~EmptyNode(f)
  /\ \A i \in DOMAIN f.FilterGroups : NoEmptyNode(f.FilterGroups[i])

\* C13: on a filter tree whose every node has an expression or a child
\* node, Matches returns what full evaluation gives: an And node is true iff
\* all its expressions and child nodes match the entry, an Or node iff at
\* least one does.
C13_FullEvaluation ==
  (MatchedEntry /\ NoEmptyNode(config.UserFilter)) =>
    /\ ~last.panicked
    /\ last.m <=> FullMatch(config.UserFilter, Entries[last.p])

-----------------------------------------------------------------------------
(* SpecCompile: a sequence of Matches calls on one filter and one entry;    *)
(* last.compiles is every call of regexp.Compile made so far, in order, and *)
(* last.calls the number of Matches calls.                                  *)

MaxCalls == 3

\* config.UserFilter.Matches(p) after the calls made so far, returning r
MatchesAgainReturns(p, r) ==
  /\ last.calls < MaxCalls
  /\ config' = [config EXCEPT !.UserFilter = r.f]
  /\ last' = [NoCall EXCEPT !.op = "Matches", !.p = p, !.m = r.m, !.panicked = r.panicked,
                            !.trace = r.trace, !.again = config.UserFilter.compiled,
                            !.compiles = last.compiles \o r.compiles,
                            !.calls = last.calls + 1]
  /\ UNCHANGED <<Entries, users, groups, first>>
  /\ UNCHANGED syncVars

MatchesAgain(p) == MatchesAgainReturns(p, MatchesPtr(config.UserFilter, p))

NextCompile == \E p \in 0..Len(Entries) : MatchesAgain(p)

SpecCompile == InitMatches /\ [][NextCompile]_vars

-----------------------------------------------------------------------------
(* Claims about the compilation of expressions, under SpecCompile *)

\* C14: over any sequence of Matches calls, regexp.Compile is called at most
\* once for each FilterExpression of the tree, whether or not its Value
\* compiles.
C14_CompiledAtMostOnce ==
  \A i, j \in DOMAIN last.compiles : last.compiles[i] = last.compiles[j] => i = j

-----------------------------------------------------------------------------
(* SpecDo: Do(config) against a directory server.  config is the sanitized  *)
(* copy result.config points to and Entries is result.Entries.              *)

MaxBaseDNs == 2

MaxFound == 2

\* TODO in the source: the DN is returned as it is
sanitiseDN(d) == d

Sanitize(conf) ==
  [conf EXCEPT !.BaseDNs = [i \in DOMAIN conf.BaseDNs |-> sanitiseDN(conf.BaseDNs[i])]]

\* An ldap.EntryAttribute and an ldap.Entry of a search result
FoundAttr(name, values) == [Name |-> name, Values |-> values, ByteValues |-> values]

Found(d, attributes) == [DN |-> d, Attributes |-> attributes]

\* Lines 65-77: the LDAPEntry values built from the entries of one search
Converted(found) ==
  [k \in DOMAIN found |->
     [DN |-> found[k].DN,
      Attributes |-> [i \in DOMAIN found[k].Attributes |->
                        [Name |-> found[k].Attributes[i].Name,
                         Values |-> found[k].Attributes[i].Values]]]]

GatheredInFront(entries, found) == Converted(found) \o entries

\* result.Entries = append(result.Entries, &ent), for each entry found
Gathered(entries, found) == entries \o Converted(found)

\* The base DNs searched so far
Searched == Len(SelectSeq(log, LAMBDA q : q.op = "Search"))

\* Where Do stands after the bind, or after the connection without a bind
DoAfterBind(conf) == IF conf.BaseDNs = <<>> THEN "DoDone" ELSE "DoSearch"

\* Where Do stands once the connection is made (line 41 on)
DoAfterConnect(conf) == IF conf.RequiresAuthentication THEN "DoBind" ELSE DoAfterBind(conf)

\* Do goes on to position next, or returns: the deferred Close runs and the
\* requests reqs join the log
DoGoes(next, reqs, d, c) ==
  /\ pc' = next
  /\ deferred' = d
  /\ log' = (log \o reqs) \o (IF next = "DoDone" THEN Closing(d) ELSE <<>>)
  /\ conn' = IF next = "DoDone" THEN Deferred(c, d) ELSE c

\* Do, lines 13-29: sanitize, then dial, DialTLS for "tls" and DialURL otherwise
DoDial(ok) ==
  /\ pc = "Do"
  /\ config' = Sanitize(config)
  /\ IF ok
     THEN /\ IF config'.TLS = "starttls"
             THEN DoGoes("DoStartTLS", <<Req("DialURL", <<>>, TRUE, <<>>)>>, FALSE, "open")
             ELSE DoGoes(DoAfterConnect(config'),
                         <<Req(IF config'.TLS = "tls" THEN "DialTLS" ELSE "DialURL",
                               <<>>, TRUE, <<>>)>>, TRUE, "open")
          /\ UNCHANGED err
     ELSE /\ DoGoes("DoDone", <<Req(IF config'.TLS = "tls" THEN "DialTLS" ELSE "DialURL",
                                   <<>>, FALSE, <<>>)>>, FALSE, conn)
          /\ err' = Error(IF config'.TLS = "tls" THEN "DialTLS" ELSE "DialURL")
  /\ UNCHANGED <<Entries, users, groups, last, first, data, auth>>

\* Do, lines 30-41: StartTLS in starttls mode
DoStartTLS(outcome) ==
  /\ pc = "DoStartTLS"
  /\ IF outcome = "ok"
     THEN /\ DoGoes(DoAfterConnect(config), <<Req("StartTLS", <<>>, TRUE, <<>>)>>, TRUE, conn)
          /\ UNCHANGED err
     ELSE /\ DoGoes("DoDone", <<Req("StartTLS", <<>>, FALSE, <<>>)>>, FALSE,
                    AfterStartTLS(outcome))
          /\ err' = Error("StartTLS")
  /\ UNCHANGED <<Entries, config, users, groups, last, first, data, auth>>

\* Do, lines 43-48: the bind, when the config requires authentication
DoBind(ok) ==
  /\ pc = "DoBind"
  /\ DoGoes(IF ok THEN DoAfterBind(config) ELSE "DoDone",
            <<Req("Bind", config.SyncUserName, ok, <<>>)>>, deferred, conn)
  /\ err' = IF ok THEN err ELSE Error("Bind")
  /\ UNCHANGED <<Entries, config, users, groups, last, first, data, auth>>

\* Do, lines 50-79: one turn of the loop over config.BaseDNs, the paged
\* search of the next base DN, which fails or finds the entries found
DoSearch(ok, found) ==
  /\ pc = "DoSearch"
  /\ DoGoes(IF ok /\ Searched + 1 < Len(config.BaseDNs) THEN "DoSearch" ELSE "DoDone",
            <<Req("Search", config.BaseDNs[Searched + 1], ok, IF ok THEN found ELSE <<>>)>>,
            deferred, conn)
  /\ Entries' = IF ok THEN Gathered(Entries, found) ELSE Entries
  /\ err' = IF ok THEN err ELSE Error("Search")
  /\ UNCHANGED <<config, users, groups, last, first, data, auth>>

ServerEntries ==
  { Found(dnUA, <<FoundAttr(sUID, << <<"a">> >>)>>),
    Found(dnGX, <<FoundAttr(sMember, <<dnUA>>), FoundAttr(sOC, <<>>)>>) }

Founds == SeqsUpTo(ServerEntries, MaxFound)

NextDo ==
  \/ \E ok \in BOOLEAN : DoDial(ok)
  \/ \E outcome \in StartTLSOutcomes : DoStartTLS(outcome)
  \/ \E ok \in BOOLEAN : DoBind(ok)
  \/ \E ok \in BOOLEAN, found \in Founds : DoSearch(ok, found)

DoConfigs ==
  { [TLS |-> t, RequiresAuthentication |-> a, SyncUserName |-> dnUA, SyncPassword |-> <<"p">>,
     BaseDNs |-> b, UserFilter |-> NoFilter, GroupFilter |-> NoFilter,
     GroupMembership |-> NoAssociator] :
      t \in Modes, a \in BOOLEAN, b \in SeqsUpTo({<<"o", "=", "x">>, <<"o", "=", "y">>}, MaxBaseDNs) }

InitDo ==
  /\ Entries = <<>>
  /\ config \in DoConfigs
  /\ users = <<>>
  /\ groups = <<>>
  /\ last = NoCall
  /\ first = NoFirst
  /\ pc = "Do"
  /\ data = NoData
  /\ conn = "nil"
  /\ deferred = FALSE
  /\ log = <<>>
  /\ err = NilErr
  /\ auth = NoAuth

SpecDo == InitDo /\ [][NextDo]_vars

-----------------------------------------------------------------------------
(* Claims about Do, under SpecDo *)

Step(op, arg) == [op |-> op, arg |-> arg]

\* The steps of a complete run of Do, in order
Steps(conf) ==
  (((IF conf.TLS = "tls" THEN <<Step("DialTLS", <<>>)>> ELSE <<Step("DialURL", <<>>)>>)
    \o (IF conf.TLS = "starttls" THEN <<Step("StartTLS", <<>>)>> ELSE <<>>))
    \o (IF conf.RequiresAuthentication THEN <<Step("Bind", conf.SyncUserName)>> ELSE <<>>))
    \o [k \in DOMAIN conf.BaseDNs |-> Step("Search", conf.BaseDNs[k])]

\* The steps performed so far, with their outcomes
Performed == SelectSeq(log, LAMBDA q : q.op # "Close")

RECURSIVE Concatenated(_)

Concatenated(ss) == IF ss = <<>> THEN <<>> ELSE Head(ss) \o Concatenated(Tail(ss))

SearchResults ==
  LET found == SelectSeq(log, LAMBDA q : q.op = "Search")
  IN  Concatenated([k \in DOMAIN found |->
                      [j \in DOMAIN found[k].entries |->
                         [DN |-> found[k].entries[j].DN,
                          Attributes |-> [i \in DOMAIN found[k].entries[j].Attributes |->
                             Attr(found[k].entries[j].Attributes[i].Name,
                                  found[k].entries[j].Attributes[i].Values)]]]])

\* C15: Do performs connect (DialTLS, or DialURL and then StartTLS in
\* starttls mode), bind (only when RequiresAuthentication) and one search
\* per base DN in BaseDNs order, strictly in that order; the first failing
\* step ends the run with that step's error and nothing is performed after
\* it; and when Do returns a nil error every step was performed and Entries
\* is the concatenation, in BaseDNs order, of the entries of every search.
C15_StepsInOrder ==
  /\ Len(Performed) <= Len(Steps(config))
  /\ \A k \in DOMAIN Performed :
       /\ Step(Performed[k].op, Performed[k].arg) = Steps(config)[k]
       /\ ~Performed[k].ok =>
            /\ k = Len(Performed)
            /\ pc = "DoDone"
            /\ err = Error(Performed[k].op)
  /\ (pc = "DoDone" /\ err = NilErr) =>
       /\ Len(Performed) = Len(Steps(config))
       /\ \A k \in DOMAIN Performed : Performed[k].ok
       /\ Entries = SearchResults

C15_Witness ==
  /\ pc = "DoDone"
  /\ err = NilErr
  /\ config.TLS = "starttls"
  /\ config.RequiresAuthentication
  /\ Len(config.BaseDNs) = 2
  /\ Len(Entries) = 3
  /\ Entries[1].DN # Entries[3].DN

-----------------------------------------------------------------------------
(* SpecSync: one call of Do or of Auth *)

InitSync == InitDo \/ InitAuth

NextSync == NextDo \/ NextAuth

SpecSync == InitSync /\ [][NextSync]_vars

HasReturned == pc \in {"DoDone", "AuthDone"}

Dialed == Succeeded("DialTLS") \/ Succeeded("DialURL")

\* C16: when Do or Auth has returned, the connection it dialed, if any, is
\* closed, on every path: success, StartTLS failure, bind failure and
\* search failure.
C16_ClosedOnReturn == (HasReturned /\ Dialed) => conn = "closed"

====
